---- MODULE Spec2Model ----
(***************************************************************************)
(* Salon Ibargo voice assistant: the after-call pipeline                   *)
(* (after_call_handler.py, gsheet_utils.py, ai_utils.py) and the booking   *)
(* tool (actions.py, inbound_agent.py).                                    *)
(*                                                                         *)
(* Scheduling model.  handle_after_call is a coroutine: concurrent runs    *)
(* share one asyncio event loop, so a run executes alone from one          *)
(* suspension point to the next (variable loop names the running           *)
(* coroutine).  The only suspension points of a run are the two            *)
(* "await asyncio.to_thread(...)"; "await summarize_transcript(...)" calls *)
(* a blocking client and never yields the loop.  append_row_to_sheet runs  *)
(* in worker threads, truly concurrent with the loop and with each other.  *)
(***************************************************************************)
EXTENDS Integers, Sequences, FiniteSets, TLC

\* ------------------------------------------------------------------ bounds
NumRuns == 2          \* concurrent pipeline runs (distinct call_ids)
MaxCount == 3         \* attempt counters saturate here
MaxAttempts == 3      \* booking-tool invocations in one call
MaxItems == 3         \* entries of a transcript given to the codec
MaxOutput == 2        \* output items of a model response
MaxBlocks == 2        \* content blocks of one output item
MaxTurns == 2         \* conversation items of one call
NumWorkers == 2       \* threads of the pool that asyncio.to_thread runs appends in

Runs == 1..NumRuns
NoRun == 0
None == "None"

\* ------------------------------------------------------- program constants
CALLS_CSV == "calls_log.csv"
SCHEDULE_CSV == "scheduled_visits.csv"
CsvPaths == {CALLS_CSV, SCHEDULE_CSV}

CALL_HEADERS ==
  << "created_at_pst", "call_started_at", "call_ended_at",
     "call_duration_seconds", "transcript", "summary", "call_id" >>

SCHEDULE_HEADERS ==
  << "created_at_pst", "name", "purpose", "visit_date", "visit_time", "call_id" >>

LLAMADAS == "Llamadas"
CITAS == "Citas"
SheetNames == {LLAMADAS, CITAS}

\* ------------------------------------------------------------ dictionaries
\* A Python dict is a function from its keys; None and {} are the empty one
\* (both are falsy, which is all the code asks of them).
EmptyDict == [k \in {} |-> None]
Truthy(d) == DOMAIN d # {}
Get(d, k) == IF k \in DOMAIN d THEN d[k] ELSE None
\* d.get(k) where the value is itself a dict
GetDict(d, k) == IF k \in DOMAIN d THEN d[k] ELSE EmptyDict

\* [row.get(h) for h in headers]; csv.DictWriter projects the same way
Project(headers, row) == [i \in 1..Len(headers) |-> Get(row, headers[i])]

\* ---------------------------------------------------------------- ai_utils
\* A string is the sequence of its pieces: single characters of user text,
\* and the literal pieces the code itself emits ("USER", ": ", " | ").
NL == "\n"
Whitespace == {" ", NL}

Upper(role) ==
  CASE role = "user" -> "USER"
    [] role = "assistant" -> "ASSISTANT"
    [] OTHER -> role

\* str.replace('\n', ' ')
ReplaceNewlines(s) == [i \in 1..Len(s) |-> IF s[i] = NL THEN " " ELSE s[i]]

RECURSIVE LStrip(_)
LStrip(s) == IF s # << >> /\ Head(s) \in Whitespace THEN LStrip(Tail(s)) ELSE s

RECURSIVE RStrip(_)
RStrip(s) ==
  IF s # << >> /\ s[Len(s)] \in Whitespace THEN RStrip(SubSeq(s, 1, Len(s) - 1)) ELSE s

\* str.strip()
Strip(s) == RStrip(LStrip(s))

\* (mutant) the key is tested, not the text: "content" in item
HasContent_key(item) == "content" \in DOMAIN item
\* (mutant) blank content is dropped too: item.get("content", "").strip()
HasContent_nonblank(item) ==
  "content" \in DOMAIN item /\ \E i \in 1..Len(item.content) : item.content[i] \notin Whitespace
\* item.get("content") is truthy: the key is there and the text is not ""
HasContent(item) == "content" \in DOMAIN item /\ item.content # << >>

Segment(item) == << Upper(item.role), ": " >> \o Strip(ReplaceNewlines(item.content))

RECURSIVE Segments(_)
Segments(t) ==
  IF t = << >> THEN << >>
  ELSE IF HasContent(Head(t)) THEN << Segment(Head(t)) >> \o Segments(Tail(t))
  ELSE Segments(Tail(t))

RECURSIVE Join(_)
Join(segs) ==
  IF segs = << >> THEN << >>
  ELSE IF Len(segs) = 1 THEN Head(segs)
  ELSE Head(segs) \o << " | " >> \o Join(Tail(segs))

transcript_to_single_line(t) == Join(Segments(t))

\* hasattr(item, "content") and item.content: the attribute is there, and
\* it is truthy (None and the empty list, both falsy, are << >> here)
has_content(item) == "content" \in DOMAIN item /\ item.content # << >>

\* the blocks of one item the inner loop returns at, in order:
\* getattr(content, "type", None) == "output_text"
output_texts(blocks) ==
  SelectSeq(blocks, LAMBDA c : "type" \in DOMAIN c /\ c.type = "output_text")

RECURSIVE extract_text_unstripped(_)
\* (mutant) the text is returned as it is: return content.text
extract_text_unstripped(output) ==
  IF output = << >> THEN << >>
  ELSE LET item == Head(output)
           hits == IF has_content(item) THEN output_texts(item.content) ELSE << >>
       IN IF hits # << >> THEN Head(hits).text
          ELSE extract_text_unstripped(Tail(output))

RECURSIVE extract_text(_)
\* extract_text(response), on response.output: the first output_text block
\* of the first item that has one, stripped; "" when the loops run out
extract_text(output) ==
  IF output = << >> THEN << >>
  ELSE LET item == Head(output)
           hits == IF has_content(item) THEN output_texts(item.content) ELSE << >>
       IN IF hits # << >> THEN Strip(Head(hits).text)
          ELSE extract_text(Tail(output))

\* ----------------------------------------- ai_utils: date and time texts
\* datetime.strptime(text, "%Y-%m-%d") and (text, "%H:%M") on a text given
\* as the sequence of its characters: %Y is four digits, the other fields
\* one or two digits, and the values must name a real day and minute.
DigitVal ==
  ("0" :> 0) @@ ("1" :> 1) @@ ("2" :> 2) @@ ("3" :> 3) @@ ("4" :> 4) @@
  ("5" :> 5) @@ ("6" :> 6) @@ ("7" :> 7) @@ ("8" :> 8) @@ ("9" :> 9)
DigitChar == << "0", "1", "2", "3", "4", "5", "6", "7", "8", "9" >>

AllDigits(f) == f # << >> /\ \A i \in 1..Len(f) : f[i] \in DOMAIN DigitVal

RECURSIVE ToNat(_)
ToNat(f) == IF f = << >> THEN 0 ELSE 10 * ToNat(SubSeq(f, 1, Len(f) - 1)) + DigitVal[f[Len(f)]]

\* the fields of a text between the separators
RECURSIVE Split(_, _)
Split(text, sep) ==
  IF \A i \in 1..Len(text) : text[i] # sep THEN << text >>
  ELSE LET k == CHOOSE i \in 1..Len(text) :
                  text[i] = sep /\ \A j \in 1..(i - 1) : text[j] # sep
       IN << SubSeq(text, 1, k - 1) >> \o Split(SubSeq(text, k + 1, Len(text)), sep)

IsLeap(y) == (y % 4 = 0 /\ y % 100 # 0) \/ y % 400 = 0
DaysIn(y, m) ==
  IF m = 2 THEN (IF IsLeap(y) THEN 29 ELSE 28)
  ELSE IF m \in {4, 6, 9, 11} THEN 30 ELSE 31

\* %d also takes a space and one digit (" 5"); DayDigits is its digits
DayDigits(f) == IF f # << >> /\ Head(f) = " " THEN Tail(f) ELSE f
DayField(f) ==
  \/ AllDigits(f) /\ Len(f) \in {1, 2}
  \/ Len(f) = 2 /\ f[1] = " " /\ AllDigits(Tail(f))

\* (mutant) the day is not checked against the month's length
ValidDate_no_calendar(text) ==
  LET f == Split(text, "-") IN
  /\ Len(f) = 3
  /\ AllDigits(f[1]) /\ AllDigits(f[2]) /\ DayField(f[3])
  /\ Len(f[1]) = 4 /\ Len(f[2]) \in {1, 2}
  /\ ToNat(f[1]) >= 1
  /\ ToNat(f[2]) \in 1..12
  /\ ToNat(DayDigits(f[3])) \in 1..31
ValidDate(text) ==
  LET f == Split(text, "-") IN
  /\ Len(f) = 3
  /\ AllDigits(f[1]) /\ AllDigits(f[2]) /\ DayField(f[3])
  /\ Len(f[1]) = 4 /\ Len(f[2]) \in {1, 2}
  /\ ToNat(f[1]) >= 1
  /\ ToNat(f[2]) \in 1..12
  /\ ToNat(DayDigits(f[3])) \in 1..DaysIn(ToNat(f[1]), ToNat(f[2]))

ValidTime(text) ==
  LET f == Split(text, ":") IN
  /\ Len(f) = 2
  /\ \A i \in 1..2 : AllDigits(f[i])
  /\ Len(f[1]) \in {1, 2} /\ Len(f[2]) \in {1, 2}
  /\ ToNat(f[1]) \in 0..23
  /\ ToNat(f[2]) \in 0..59

\* the instant strptime builds from texts that passed
ParseDateTime(date, time) ==
  LET d == Split(date, "-")
      t == Split(time, ":") IN
  [year |-> ToNat(d[1]), month |-> ToNat(d[2]), day |-> ToNat(DayDigits(d[3])),
   hour |-> ToNat(t[1]), minute |-> ToNat(t[2])]

Pad2(n) == << DigitChar[(n \div 10) + 1], DigitChar[(n % 10) + 1] >>
Pad4(n) == Pad2(n \div 100) \o Pad2(n % 100)

RECURSIVE Decimal(_)
Decimal(n) == IF n < 10 THEN << DigitChar[n + 1] >>
              ELSE Decimal(n \div 10) \o << DigitChar[(n % 10) + 1] >>

\* strftime("%Y") is the C library's: a year below 1000 comes out padded
\* to four digits on some platforms and bare on others (glibc)
Year(y, pads) == IF pads \/ y >= 1000 THEN Pad4(y) ELSE Decimal(y)

\* dt.strftime("%Y-%m-%d")
FormatDate(dt, pads) ==
  Year(dt.year, pads) \o << "-" >> \o Pad2(dt.month) \o << "-" >> \o Pad2(dt.day)

\* (mutant) the hour on the 12-hour clock ("%I:%M")
FormatTime_12h(dt) ==
  Pad2(IF dt.hour % 12 = 0 THEN 12 ELSE dt.hour % 12) \o << ":" >> \o Pad2(dt.minute)
\* dt.strftime("%H:%M")
FormatTime(dt) == Pad2(dt.hour) \o << ":" >> \o Pad2(dt.minute)

\* ZoneInfo("America/Los_Angeles"): local mean time before the railway
\* zones of 1883; from 2007 on daylight time from the second Sunday of
\* March to the first Sunday of November.  A wall time in the hour skipped
\* in March keeps the offset before the change, one in the hour repeated
\* in November the first of the two (fold = 0).  The rules of the years
\* between are not modelled: no date text of the model lies there.
MonthShift == << 0, 3, 2, 5, 0, 3, 5, 1, 4, 6, 2, 4 >>
DayOfWeek(y, m, d) ==        \* 0 is Sunday
  LET yy == IF m < 3 THEN y - 1 ELSE y IN
  (yy + (yy \div 4) - (yy \div 100) + (yy \div 400) + MonthShift[m] + d) % 7
SecondSundayOfMarch(y) == CHOOSE d \in 8..14 : DayOfWeek(y, 3, d) = 0
FirstSundayOfNovember(y) == CHOOSE d \in 1..7 : DayOfWeek(y, 11, d) = 0

Stamp(m, d, h) == (m * 100 + d) * 100 + h
DaylightTime(dt) ==
  LET now == Stamp(dt.month, dt.day, dt.hour) IN
  /\ now >= Stamp(3, SecondSundayOfMarch(dt.year), 3)
  /\ now < Stamp(11, FirstSundayOfNovember(dt.year), 2)

utcoffset(dt) ==
  CASE dt.year < 1883 -> << "-", "0", "7", ":", "5", "2", ":", "5", "8" >>
    [] dt.year >= 2007 /\ DaylightTime(dt) -> << "-", "0", "7", ":", "0", "0" >>
    [] dt.year >= 2007 /\ ~DaylightTime(dt) -> << "-", "0", "8", ":", "0", "0" >>

\* dt.isoformat() of an aware datetime with whole minutes
isoformat(dt) ==
  Pad4(dt.year) \o << "-" >> \o Pad2(dt.month) \o << "-" >> \o Pad2(dt.day)
    \o << "T" >> \o Pad2(dt.hour) \o << ":" >> \o Pad2(dt.minute)
    \o << ":", "0", "0" >> \o utcoffset(dt)

\* What the interpretation step can answer: text that is not JSON, or a
\* JSON object with or without each of the keys date, time, confidence.
Date_Feb14 == << "2", "0", "2", "6", "-", "0", "2", "-", "1", "4" >>
Date_Mar5 == << "2", "0", "2", "6", "-", "3", "-", " ", "5" >>
Date_Jul4 == << "2", "0", "2", "6", "-", "0", "7", "-", "0", "4" >>
Date_Year999 == << "0", "9", "9", "9", "-", "0", "1", "-", "0", "1" >>
Date_Slashes == << "1", "4", "/", "0", "2", "/", "2", "0", "2", "6" >>
Date_Feb30 == << "2", "0", "2", "6", "-", "0", "2", "-", "3", "0" >>
DateTexts == {Date_Feb14, Date_Mar5, Date_Jul4, Date_Year999, Date_Slashes, Date_Feb30}

Time_18h == << "1", "8", ":", "0", "0" >>
Time_9h5 == << "9", ":", "5" >>
Time_6pm == << "6", "p", "m" >>
Time_24h == << "2", "4", ":", "0", "0" >>
TimeTexts == {Time_18h, Time_9h5, Time_6pm, Time_24h}
Confidences == {"high", "medium", "low"}

NotJson == [not_json |-> TRUE]

Answers ==
  {NotJson}
  \cup [date : DateTexts, time : TimeTexts, confidence : Confidences]
  \cup [date : DateTexts, time : TimeTexts]
  \cup [time : TimeTexts, confidence : Confidences]
  \cup [date : DateTexts, confidence : Confidences]

\* normalize_visit_datetime_pst raises: json.loads, data["date"], data["time"]
\* or one of the strptime calls
NormalizeRaises(data) ==
  \/ data = NotJson
  \/ "date" \notin DOMAIN data
  \/ "time" \notin DOMAIN data
  \/ ~ValidDate(data.date)
  \/ ~ValidTime(data.time)

\* data.get("confidence", "low")
confidence_of(data) ==
  IF "confidence" \in DOMAIN data THEN data.confidence ELSE "low"

\* the dict normalize_visit_datetime_pst returns when it does not raise
normalize_visit_datetime_pst(data, pads) ==
  LET dt == ParseDateTime(data.date, data.time) IN
  [visit_date |-> FormatDate(dt, pads),
   visit_time |-> FormatTime(dt),
   visit_datetime_iso |-> isoformat(dt),
   timezone |-> "America/Los_Angeles",
   confidence |-> confidence_of(data)]


\* ------------------------------------------- after_call_handler: instants
\* An instant is a time of the day 2026-02-14 (America/Los_Angeles), in
\* milliseconds after midnight.
Today == << "2", "0", "2", "6", "-", "0", "2", "-", "1", "4" >>

\* strftime("%Y-%m-%d %H:%M:%S"): the part below the second is dropped
FormatInstant(t) ==
  Today \o << " " >> \o Pad2(t \div 3600000) \o << ":" >>
        \o Pad2((t \div 60000) % 60) \o << ":" >> \o Pad2((t \div 1000) % 60)

\* (mutant) the seconds rounded down
duration_floor(started, ended) == (ended - started) \div 1000
\* duration = int((call_ended - call_started_at).total_seconds()): int()
\* of a float drops the fraction, towards zero
duration(started, ended) ==
  LET ms == ended - started IN
  IF ms >= 0 THEN ms \div 1000 ELSE -((-ms) \div 1000)

\* The clock readings of run r.  Concurrent runs are given different
\* readings: a call of 65.25 s, and a start that lies half a second after
\* the end (the caller's clock ahead of this one).
Clocks(r) ==
  IF r % 2 = 1 THEN [started |-> 64800000, ended |-> 64865250]
  ELSE [started |-> 64900500, ended |-> 64900000]

\* ------------------------------------------------------- the run's inputs
\* What handle_after_call is invoked with.  Its callers are outside this
\* repository's sources, so the inputs range over the shapes a caller can
\* pass: an empty or a non-empty transcript; no booking, a booking as the
\* booking tool builds it, or a truthy mapping that lacks a field.
Transcripts ==
  { << >>,
    << [role |-> "user", content |-> << "h", "i" >>],
       [role |-> "assistant", content |-> << "o", NL, "k" >>] >> }

Booking == [name |-> "Ana", purpose |-> "boda",
            visit_date |-> "2026-02-14", visit_time |-> "18:00"]
BrokenBooking == [name |-> "Ana"]
VisitFields == {"name", "purpose", "visit_date", "visit_time"}
WellFormed(cv) == VisitFields \subseteq DOMAIN cv

Userdatas ==
  { EmptyDict,
    [confirmed_visit |-> Booking],
    [confirmed_visit |-> BrokenBooking] }

SummaryText == "resumen"

\* ------------------------------------------------------------------- state
VARIABLES
  pc,                \* pc[r]: where run r's coroutine stands
  loop,              \* the run executing on the event loop, or NoRun
  transcript,        \* transcript[r]: argument of run r
  session_userdata,  \* session_userdata[r]: argument of run r
  call_started_at,   \* call_started_at[r]: argument of run r, an instant
  call_ended,        \* call_ended[r]: local of handle_after_call, an instant
  summary,           \* summary[r]: local of handle_after_call
  exists,            \* exists[r]: local of append_csv
  files,             \* files[path]: whether the file exists, and its lines
  sheets,            \* sheets[name]: the data rows below the sheet's header
  thread,            \* thread[r][name]: the to_thread call of run r for a sheet
  csv_result,        \* csv_result[r][path]: "none", "ok", "failed"
  csv_attempts,      \* csv_attempts[r][path]: times run r tried to write path
  sheet_calls,       \* sheet_calls[r][name]: append_row_to_sheet dispatches
  requests,          \* requests[r][name]: append requests sent to the service
  summarizer_calls,  \* summarizer_calls[r]
  service,           \* gsheet_utils._service: None or "client"
  userdata,          \* the call session's userdata (context.session.userdata)
  attempts,          \* booking-tool invocations so far in the call
  last,              \* the last invocation: tool, answer, outcome, userdata before
  first_booked,      \* history: the booking the first successful attempt stored
  last_booked,       \* history: the booking the latest successful attempt stored
  flat,              \* the last transcript flattened, and the line it gave
  measured,          \* the last pair of instants measured, and the duration
  extracted,         \* the last model response read, and the text taken from it
  call,              \* one call of inbound_agent.entrypoint, and what it sent
  worker,            \* worker[w]: where pool thread w is in append_row_to_sheet
  builds,            \* history: the clients build("sheets", "v4", ...) has returned
  used               \* history: the clients append requests were made on

pipeline_vars ==
  << pc, loop, transcript, session_userdata, call_started_at, call_ended,
     summary, exists, files, sheets, thread, csv_result, csv_attempts, sheet_calls, requests,
     summarizer_calls, service >>

session_vars == << userdata, attempts, last, first_booked, last_booked >>

codec_vars == << flat, measured, extracted >>

worker_vars == << worker, builds, used >>

vars == << pipeline_vars, session_vars, codec_vars, call, worker_vars >>

Bump(n) == IF n < MaxCount THEN n + 1 ELSE n

\* ------------------------------------------------------------ control flow
\* Where control goes from an except clause.  "unwind" is an exception
\* travelling up to the outermost try of handle_after_call.
\* (mutant) append_csv without its try/except: the error leaves append_csv
append_csv_reraises(after) == "unwind"
append_csv_except(after) == after          \* logged; append_csv returns

\* (mutant) no try/except around the summarizer: the error unwinds
summarize_reraises(after) == "unwind"
summarize_except(after) == after           \* logged; summary stays None

\* (mutant) the summarizer is called whatever the transcript
transcript_test_always(t) == TRUE
\* "if transcript:"
transcript_test(t) == t # << >>

\* (mutant) a failed remote append is tried again
sheet_except_retries(sheet_name, after) ==
  IF sheet_name = "Llamadas" THEN "sheet_calls_dispatch" ELSE "sheet_visits_dispatch"
sheet_except(sheet_name, after) == after   \* logged; the run goes on

\* (mutant) no outermost try/except: the error reaches the caller
outer_reraises == "raised"
outer_except == "returned"                 \* logged; the handler returns

\* (mutant) the thread is started and not awaited
to_thread_fire_and_forget(await_pc, after) == after
\* "await asyncio.to_thread(...)": the coroutine waits for the thread
to_thread_await(await_pc, after) == await_pc

AwaitPcs == {"sheet_calls_await", "sheet_visits_await"}
Terminal == {"returned", "raised"}

\* (mutant) append_csv yields the loop between its check and its write
SuspendsInsideAppend(p) ==
  p \in AwaitPcs \cup Terminal \cup {"csv_calls_write", "csv_visits_write"}
\* The pcs at which the coroutine is off the event loop.
Suspends(p) == p \in AwaitPcs \cup Terminal

AwaitedSheet(p) == IF p = "sheet_calls_await" THEN LLAMADAS ELSE CITAS

FutureDone(r, s) == thread[r][s].st \in {"ok", "err"}

\* A suspended coroutine is resumed when what it awaits is done.
Ready(r) ==
  /\ pc[r] \notin Terminal
  /\ pc[r] \in AwaitPcs => FutureDone(r, AwaitedSheet(pc[r]))

Runnable(r) == loop = r \/ (loop = NoRun /\ Ready(r))

Goto(r, p) ==
  /\ pc' = [pc EXCEPT ![r] = p]
  /\ loop' = IF Suspends(p) THEN NoRun ELSE r

\* -------------------------------------------------------------- the rows
call_row(r) ==
  [created_at_pst |-> FormatInstant(call_ended[r]),
   call_started_at |-> FormatInstant(call_started_at[r]),
   call_ended_at |-> FormatInstant(call_ended[r]),
   call_duration_seconds |-> duration(call_started_at[r], call_ended[r]),
   transcript |-> transcript_to_single_line(transcript[r]),
   summary |-> summary[r],
   call_id |-> r]

\* (mutant) the test of the booking branch negated
booking_test_negated(cv) == ~Truthy(cv)
\* "if confirmed_visit:"
booking_test(cv) == Truthy(cv)

confirmed_visit_of(r) == GetDict(session_userdata[r], "confirmed_visit")

\* (mutant) the booking is taken out of the mapping:
\* session_userdata.pop("confirmed_visit", None)
userdata_after_pop(ud) == [k \in DOMAIN ud \ {"confirmed_visit"} |-> ud[k]]
\* session_userdata.get("confirmed_visit") leaves the mapping as it was
userdata_after_get(ud) == ud

\* (mutant) the entries are consumed as they are read: transcript.pop(0)
transcript_after_drain(t) == << >>
\* "if transcript:" and the loop of transcript_to_single_line only read the
\* list, which is left as it was
transcript_after_read(t) == t

\* (mutant) the booking record stamped with the start of the call
visit_created_at_from_start(r) == FormatInstant(call_started_at[r])
\* "created_at_pst": call_row["created_at_pst"]
visit_created_at(r) == call_row(r).created_at_pst

visit_row(r) ==
  LET cv == session_userdata[r].confirmed_visit IN
  [created_at_pst |-> visit_created_at(r),
   name |-> cv.name, purpose |-> cv.purpose,
   visit_date |-> cv.visit_date, visit_time |-> cv.visit_time,
   call_id |-> r]

HeaderLine(headers) == [kind |-> "header", cells |-> headers]
RowLine(headers, row) == [kind |-> "row", cells |-> Project(headers, row)]

HeadersOf(path) == IF path = CALLS_CSV THEN CALL_HEADERS ELSE SCHEDULE_HEADERS
SheetHeaders(s) == IF s = LLAMADAS THEN CALL_HEADERS ELSE SCHEDULE_HEADERS
RowOf(r, kind) == IF kind \in {CALLS_CSV, LLAMADAS} THEN call_row(r) ELSE visit_row(r)

\* ---------------------------------------------------------------- actions
PipelineInit ==
  /\ pc = [r \in Runs |-> "idle"]
  /\ loop = NoRun
  /\ transcript = [r \in Runs |-> << >>]
  /\ session_userdata = [r \in Runs |-> EmptyDict]
  /\ call_started_at = [r \in Runs |-> 0]
  /\ call_ended = [r \in Runs |-> 0]
  /\ summary = [r \in Runs |-> None]
  /\ exists = [r \in Runs |-> FALSE]
  /\ files = [p \in CsvPaths |-> [exists |-> FALSE, lines |-> << >>]]
  /\ sheets = [s \in SheetNames |-> << >>]
  /\ thread = [r \in Runs |-> [s \in SheetNames |-> [st |-> "none"]]]
  /\ csv_result = [r \in Runs |-> [p \in CsvPaths |-> "none"]]
  /\ csv_attempts = [r \in Runs |-> [p \in CsvPaths |-> 0]]
  /\ sheet_calls = [r \in Runs |-> [s \in SheetNames |-> 0]]
  /\ requests = [r \in Runs |-> [s \in SheetNames |-> 0]]
  /\ summarizer_calls = [r \in Runs |-> 0]
  /\ service = None

\* handle_after_call(call_id, call_started_at, transcript, session_userdata);
\* call_ended = datetime.now(tz=PST)
Invoke(r) ==
  /\ pc[r] = "idle"
  /\ Runnable(r)
  /\ \E t \in Transcripts, ud \in Userdatas :
       /\ transcript' = [transcript EXCEPT ![r] = t]
       /\ session_userdata' = [session_userdata EXCEPT ![r] = ud]
  /\ call_started_at' = [call_started_at EXCEPT ![r] = Clocks(r).started]
  /\ call_ended' = [call_ended EXCEPT ![r] = Clocks(r).ended]
  /\ Goto(r, "summarize")
  /\ UNCHANGED << summary, exists, files, sheets, thread, csv_result,
                  csv_attempts, sheet_calls, requests, summarizer_calls, service >>
  /\ UNCHANGED << session_vars, codec_vars, call, worker_vars >>

\* summary = None; if transcript: try: summary = await summarize_transcript(...)
Summarize(r) ==
  /\ pc[r] = "summarize"
  /\ Runnable(r)
  /\ IF transcript_test(transcript[r])
     THEN /\ summarizer_calls' = [summarizer_calls EXCEPT ![r] = Bump(@)]
          /\ \E outcome \in {"ok", "raise"} :
               IF outcome = "ok"
               THEN /\ summary' = [summary EXCEPT ![r] = SummaryText]
                    /\ Goto(r, "csv_calls_exists")
               ELSE /\ summary' = [summary EXCEPT ![r] = None]
                    /\ Goto(r, summarize_except("csv_calls_exists"))
     ELSE /\ summary' = [summary EXCEPT ![r] = None]
          /\ Goto(r, "csv_calls_exists")
          /\ UNCHANGED summarizer_calls
  /\ transcript' = [transcript EXCEPT ![r] = transcript_after_read(@)]
  /\ UNCHANGED << session_userdata, call_started_at, call_ended, exists, files, sheets, thread,
                  csv_result, csv_attempts, sheet_calls, requests, service >>
  /\ UNCHANGED << session_vars, codec_vars, call, worker_vars >>

\* append_csv, first statement: exists = path.exists()
CsvExists(r, path, here, write_pc) ==
  /\ pc[r] = here
  /\ Runnable(r)
  /\ exists' = [exists EXCEPT ![r] = files[path].exists]
  /\ Goto(r, write_pc)
  /\ UNCHANGED << transcript, session_userdata, call_started_at, call_ended, summary, files, sheets, thread,
                  csv_result, csv_attempts, sheet_calls, requests,
                  summarizer_calls, service >>
  /\ UNCHANGED << session_vars, codec_vars, call, worker_vars >>

\* append_csv, the with block: open for append, header if the file was not
\* there, the row, close.  It can fail on open (nothing changes) or on the
\* write reaching the disk (open has created the file, nothing is in it).
CsvWrite(r, path, here, after) ==
  /\ pc[r] = here
  /\ Runnable(r)
  /\ csv_attempts' = [csv_attempts EXCEPT ![r][path] = Bump(@)]
  /\ \E outcome \in {"ok", "open_fails", "write_fails"} :
       CASE outcome = "ok" ->
              /\ files' = [files EXCEPT ![path] =
                   [exists |-> TRUE,
                    lines |-> @.lines
                       \o (IF exists[r] THEN << >> ELSE << HeaderLine(HeadersOf(path)) >>)
                       \o << RowLine(HeadersOf(path), RowOf(r, path)) >>]]
              /\ csv_result' = [csv_result EXCEPT ![r][path] = "ok"]
              /\ Goto(r, after)
         [] outcome = "open_fails" ->
              /\ UNCHANGED files
              /\ csv_result' = [csv_result EXCEPT ![r][path] = "failed"]
              /\ Goto(r, append_csv_except(after))
         [] outcome = "write_fails" ->
              /\ files' = [files EXCEPT ![path].exists = TRUE]
              /\ csv_result' = [csv_result EXCEPT ![r][path] = "failed"]
              /\ Goto(r, append_csv_except(after))
  /\ exists' = [exists EXCEPT ![r] = FALSE]     \* the local dies with the call
  /\ UNCHANGED << transcript, session_userdata, call_started_at, call_ended, summary, sheets, thread,
                  sheet_calls, requests, summarizer_calls, service >>
  /\ UNCHANGED << session_vars, codec_vars, call, worker_vars >>

\* await asyncio.to_thread(append_row_to_sheet, sheet_name=..., ...): dispatch
SheetDispatch(r, s, here, await_pc, after) ==
  /\ pc[r] = here
  /\ Runnable(r)
  /\ thread' = [thread EXCEPT ![r][s] = [st |-> "queued"]]
  /\ sheet_calls' = [sheet_calls EXCEPT ![r][s] = Bump(@)]
  /\ Goto(r, to_thread_await(await_pc, after))
  /\ UNCHANGED << transcript, session_userdata, call_started_at, call_ended, summary, exists, files, sheets,
                  csv_result, csv_attempts, requests, summarizer_calls, service >>
  /\ UNCHANGED << session_vars, codec_vars, call, worker_vars >>

\* ... the await returns the thread's result, or raises its exception
SheetAwait(r, s, here, after) ==
  /\ pc[r] = here
  /\ Runnable(r)
  /\ IF thread[r][s].st = "ok"
     THEN Goto(r, after)
     ELSE Goto(r, sheet_except(s, after))
  /\ UNCHANGED << transcript, session_userdata, call_started_at, call_ended, summary, exists, files, sheets,
                  thread, csv_result, csv_attempts, sheet_calls, requests,
                  summarizer_calls, service >>
  /\ UNCHANGED << session_vars, codec_vars, call, worker_vars >>

\* confirmed_visit = session_userdata.get("confirmed_visit"); if confirmed_visit:
\* visit_row = {... confirmed_visit["name"] ...}  (KeyError if a field is missing)
BookingBranch(r) ==
  /\ pc[r] = "booking"
  /\ Runnable(r)
  /\ LET cv == confirmed_visit_of(r) IN
       IF booking_test(cv)
       THEN IF WellFormed(cv) THEN Goto(r, "csv_visits_exists") ELSE Goto(r, "unwind")
       ELSE Goto(r, "returned")
  /\ session_userdata' = [session_userdata EXCEPT ![r] = userdata_after_get(@)]
  /\ UNCHANGED << transcript, call_started_at, call_ended, summary, exists, files, sheets,
                  thread, csv_result, csv_attempts, sheet_calls, requests,
                  summarizer_calls, service >>
  /\ UNCHANGED << session_vars, codec_vars, call, worker_vars >>

\* except Exception: logger.exception("After-call handler crashed ...")
OuterExcept(r) ==
  /\ pc[r] = "unwind"
  /\ Runnable(r)
  /\ Goto(r, outer_except)
  /\ UNCHANGED << transcript, session_userdata, call_started_at, call_ended, summary, exists, files, sheets,
                  thread, csv_result, csv_attempts, sheet_calls, requests,
                  summarizer_calls, service >>
  /\ UNCHANGED << session_vars, codec_vars, call, worker_vars >>

\* Worker thread, append_row_to_sheet: service = _get_sheets_service(), then
\* the append request goes out.  Building the client can raise.  The call is
\* one step here, for which thread builds the client changes nothing of what
\* reaches the sinks; ServiceTest to ServiceReturn take it statement by
\* statement.
ThreadStart(r, s) ==
  /\ thread[r][s].st = "queued"
  /\ \/ /\ service' = "client"
        /\ thread' = [thread EXCEPT ![r][s].st = "inflight"]
        /\ requests' = [requests EXCEPT ![r][s] = Bump(@)]
     \/ /\ service = None
        /\ UNCHANGED << service, requests >>
        /\ thread' = [thread EXCEPT ![r][s].st = "err"]
  /\ UNCHANGED << pc, loop, transcript, session_userdata, call_started_at, call_ended, summary, exists, files,
                  csv_result, csv_attempts, sheet_calls, summarizer_calls, sheets >>
  /\ UNCHANGED << session_vars, codec_vars, call, worker_vars >>

\* ... .execute() returns (the service appended the row) or raises
ServiceRespond(r, s) ==
  /\ thread[r][s].st = "inflight"
  /\ \/ /\ sheets' = [sheets EXCEPT ![s] = Append(@, RowLine(SheetHeaders(s), RowOf(r, s)))]
        /\ thread' = [thread EXCEPT ![r][s].st = "ok"]
     \/ /\ UNCHANGED sheets
        /\ thread' = [thread EXCEPT ![r][s].st = "err"]
  /\ UNCHANGED << pc, loop, transcript, session_userdata, call_started_at, call_ended, summary, exists, files,
                  csv_result, csv_attempts, sheet_calls, requests,
                  summarizer_calls, service >>
  /\ UNCHANGED << session_vars, codec_vars, call, worker_vars >>

CallsCsvExists(r) == CsvExists(r, CALLS_CSV, "csv_calls_exists", "csv_calls_write")
CallsCsvWrite(r) == CsvWrite(r, CALLS_CSV, "csv_calls_write", "sheet_calls_dispatch")
CallsSheetDispatch(r) ==
  SheetDispatch(r, LLAMADAS, "sheet_calls_dispatch", "sheet_calls_await", "booking")
CallsSheetAwait(r) == SheetAwait(r, LLAMADAS, "sheet_calls_await", "booking")
VisitsCsvExists(r) == CsvExists(r, SCHEDULE_CSV, "csv_visits_exists", "csv_visits_write")
VisitsCsvWrite(r) == CsvWrite(r, SCHEDULE_CSV, "csv_visits_write", "sheet_visits_dispatch")
VisitsSheetDispatch(r) ==
  SheetDispatch(r, CITAS, "sheet_visits_dispatch", "sheet_visits_await", "returned")
VisitsSheetAwait(r) == SheetAwait(r, CITAS, "sheet_visits_await", "returned")

RunStep(r) ==
  \/ Invoke(r)
  \/ Summarize(r)
  \/ CallsCsvExists(r)
  \/ CallsCsvWrite(r)
  \/ CallsSheetDispatch(r)
  \/ CallsSheetAwait(r)
  \/ BookingBranch(r)
  \/ VisitsCsvExists(r)
  \/ VisitsCsvWrite(r)
  \/ VisitsSheetDispatch(r)
  \/ VisitsSheetAwait(r)
  \/ OuterExcept(r)

ThreadStep(r) == \E s \in SheetNames : ThreadStart(r, s)

\* ------------------------------------------------------- the booking tool
Names == {"Ana", "Luis"}
Purposes == {"boda"}

CLARIFY == "No quedo clara la fecha u hora. Me la puedes confirmar?"
BOOKED == "Perfecto. Tu visita quedo agendada."

\* (mutant) only "low" is turned away
gate_rejects_only_low(normalized) == Get(normalized, "confidence") = "low"
\* if normalized.get("confidence") != "high": return the clarification prompt
low_confidence(normalized) == Get(normalized, "confidence") # "high"

\* (mutant) a booking already stored is kept
store_once(ud, cv) ==
  IF "confirmed_visit" \in DOMAIN ud THEN ud
  ELSE [k \in DOMAIN ud \cup {"confirmed_visit"} |->
          IF k = "confirmed_visit" THEN cv ELSE ud[k]]
\* session_data["confirmed_visit"] = confirmed_visit
store_confirmed_visit(ud, cv) ==
  [k \in DOMAIN ud \cup {"confirmed_visit"} |->
     IF k = "confirmed_visit" THEN cv ELSE ud[k]]

SessionInit ==
  /\ userdata = [call_id |-> "call_1"]
  /\ attempts = 0
  /\ last = [tool |-> "none"]
  /\ first_booked = EmptyDict
  /\ last_booked = EmptyDict

Booked(cv) ==
  /\ first_booked' = IF Truthy(first_booked) THEN first_booked ELSE cv
  /\ last_booked' = cv

\* actions.agendar_cita_disponibilidad(context, name, visit_date, visit_time, purpose)
\* data: what the interpretation step answers inside normalize_visit_datetime_pst
AgendarCita ==
  /\ attempts < MaxAttempts
  /\ attempts' = attempts + 1
  /\ \E name \in Names, purpose \in Purposes, data \in Answers, pads \in BOOLEAN :
       IF NormalizeRaises(data)
       THEN /\ last' = [tool |-> "actions", answer |-> data, returned |-> "raised",
                        before |-> userdata]
            /\ UNCHANGED << userdata, first_booked, last_booked >>
       ELSE LET normalized == normalize_visit_datetime_pst(data, pads) IN
            IF low_confidence(normalized)
            THEN /\ last' = [tool |-> "actions", answer |-> data,
                             normalized |-> normalized,
                             returned |-> CLARIFY, before |-> userdata]
                 /\ UNCHANGED << userdata, first_booked, last_booked >>
            ELSE LET confirmed_visit ==
                       [name |-> name, purpose |-> purpose,
                        visit_date |-> normalized.visit_date,
                        visit_time |-> normalized.visit_time] IN
                 /\ userdata' = store_confirmed_visit(userdata, confirmed_visit)
                 /\ last' = [tool |-> "actions", answer |-> data,
                             normalized |-> normalized,
                             returned |-> BOOKED, before |-> userdata]
                 /\ Booked(confirmed_visit)
  /\ UNCHANGED << pipeline_vars, codec_vars, call, worker_vars >>

\* What the automation endpoint can answer the forwarding tool: a message,
\* with or without a confirmed_visit (None included).
ForwardedVisits ==
  { [name |-> n, purpose |-> "boda",
     visit_date |-> << "2", "0", "2", "6", "-", "0", "2", "-", "1", "4" >>,
     visit_time |-> << "1", "8", ":", "0", "0" >>] : n \in Names }

AutomationResults ==
  { [message |-> CLARIFY], [message |-> CLARIFY, confirmed_visit |-> EmptyDict] }
  \cup { [message |-> BOOKED, confirmed_visit |-> cv] : cv \in ForwardedVisits }

\* inbound_agent.agendar_cita_disponibilidad: result = await call_automation(...)
\* (which raises on a transport or HTTP error); if result.get("confirmed_visit"):
\* userdata["confirmed_visit"] = result["confirmed_visit"]
ForwardAgendarCita ==
  /\ attempts < MaxAttempts
  /\ attempts' = attempts + 1
  /\ \/ /\ last' = [tool |-> "forwarder", returned |-> "raised", before |-> userdata]
        /\ UNCHANGED << userdata, first_booked, last_booked >>
     \/ \E result \in AutomationResults :
          /\ last' = [tool |-> "forwarder", returned |-> result.message,
                      before |-> userdata]
          /\ IF Truthy(GetDict(result, "confirmed_visit"))
             THEN /\ userdata' = store_confirmed_visit(userdata, result.confirmed_visit)
                  /\ Booked(result.confirmed_visit)
             ELSE UNCHANGED << userdata, first_booked, last_booked >>
  /\ UNCHANGED << pipeline_vars, codec_vars, call, worker_vars >>

\* ------------------------------------------ gsheet_utils: the lazy client
\* The threads of the pool, with _get_sheets_service taken statement by
\* statement: threads of one process run concurrently, and one can be
\* switched out between any two statements (build reads the network).
\* the objects build("sheets", "v4", credentials=creds) returns, one per call
Clients == << "client", "client_2", "client_3", "client_4" >>

\* the pipeline's variables other than the client handle
run_vars ==
  << pc, loop, transcript, session_userdata, call_started_at, call_ended,
     summary, exists, files, sheets, thread, csv_result, csv_attempts,
     sheet_calls, requests, summarizer_calls >>

WorkerInit ==
  /\ worker = [w \in 1..NumWorkers |-> [st |-> "idle", client |-> None, tasks |-> 0]]
  /\ builds = 0
  /\ used = {}

\* asyncio.to_thread(append_row_to_sheet, ...): a thread of the pool takes
\* the call, and enters _get_sheets_service
TaskStart(w) ==
  /\ worker[w].st = "idle"
  /\ worker[w].tasks < MaxCount
  /\ worker' = [worker EXCEPT ![w].st = "test", ![w].tasks = @ + 1,
                              ![w].client = None]
  /\ UNCHANGED << service, builds, used >>
  /\ UNCHANGED << run_vars, session_vars, codec_vars, call >>

\* if _service is None:
ServiceTest(w) ==
  /\ worker[w].st = "test"
  /\ worker' = [worker EXCEPT ![w].st = IF service = None THEN "build" ELSE "return"]
  /\ UNCHANGED << service, builds, used >>
  /\ UNCHANGED << run_vars, session_vars, codec_vars, call >>

\* creds = _load_credentials(); _service = build("sheets", "v4", ...):
\* either raises, and the handle is not assigned, or a new client is
\* assigned to the handle
ServiceBuild(w) ==
  /\ worker[w].st = "build"
  /\ \/ /\ worker' = [worker EXCEPT ![w].st = "idle"]
        /\ UNCHANGED << service, builds >>
     \/ /\ builds < Len(Clients)
        /\ builds' = builds + 1
        /\ service' = Clients[builds + 1]
        /\ worker' = [worker EXCEPT ![w].st = "return"]
  /\ UNCHANGED used
  /\ UNCHANGED << run_vars, session_vars, codec_vars, call >>

\* return _service; service = _get_sheets_service()
ServiceReturn(w) ==
  /\ worker[w].st = "return"
  /\ worker' = [worker EXCEPT ![w].st = "execute", ![w].client = service]
  /\ UNCHANGED << service, builds, used >>
  /\ UNCHANGED << run_vars, session_vars, codec_vars, call >>

\* service.spreadsheets().values().append(...).execute(): the request is
\* made on the client the thread holds; the call returns or raises
AppendExecute(w) ==
  /\ worker[w].st = "execute"
  /\ used' = used \cup {worker[w].client}
  /\ worker' = [worker EXCEPT ![w].st = "idle"]
  /\ UNCHANGED << service, builds >>
  /\ UNCHANGED << run_vars, session_vars, codec_vars, call >>

Roles == {"user", "assistant"}

\* ------------------------------------------------------- the call session
\* inbound_agent.entrypoint, from the moment it has drawn the call id, read
\* the clock and made the empty transcript list.  The session's userdata is
\* the variable userdata of the booking tool.
\* ev.item.content: a list of parts, strings (str) and others (audio)
ItemContents ==
  { << >>,
    << [str |-> << "a" >>] >>,
    << [str |-> << " " >>], [audio |-> "frame"] >>,
    << [str |-> << " ", "b" >>], [audio |-> "frame"], [str |-> << "c", NL >>] >> }

RECURSIVE joined(_)
\* "".join(part for part in ev.item.content if isinstance(part, str))
joined(parts) ==
  IF parts = << >> THEN << >>
  ELSE (IF "str" \in DOMAIN Head(parts) THEN Head(parts).str ELSE << >>)
         \o joined(Tail(parts))

\* (mutant) the forwarding is tried again after a failure
forward_except_retries == "live"
\* except Exception: logger.exception("After-call forwarding failed"), and
\* on_shutdown is over
forward_except == "ended"

\* generate_call_id(), datetime.now(tz=PST), transcript = []
CallInit ==
  call = [phase |-> "starting", call_id |-> "call_1",
          call_started_at |-> Clocks(1).started,
          transcript |-> << >>, handler |-> FALSE, callback |-> FALSE,
          posts |-> 0, wire |-> << >>, response |-> "none", served |-> << >>]

\* ctx.connect, ctx.wait_for_participant, open(INSTRUCTIONS_PATH) or the
\* construction of the session raises: the job ends with no shutdown
\* callback registered
EntrypointFails ==
  /\ call.phase = "starting"
  /\ call' = [call EXCEPT !.phase = "ended"]
  /\ UNCHANGED << pipeline_vars, session_vars, codec_vars, worker_vars >>

\* session.on("conversation_item_added", on_conversation_item) and
\* ctx.add_shutdown_callback(on_shutdown); the session starts
RegisterCallbacks ==
  /\ call.phase = "starting"
  /\ call' = [call EXCEPT !.phase = "live", !.handler = TRUE, !.callback = TRUE]
  /\ UNCHANGED << pipeline_vars, session_vars, codec_vars, worker_vars >>

\* on_conversation_item(ev): the handler is never removed from the session,
\* so it runs for every item the session adds while the process lives
on_conversation_item ==
  /\ call.handler
  /\ call.phase \in {"live", "shutting"}
  /\ Len(call.transcript) < MaxTurns
  /\ \E role \in Roles, content \in ItemContents :
       LET text == Strip(joined(content)) IN
       call' = IF text # << >>
               THEN [call EXCEPT !.transcript =
                                   Append(@, [role |-> role, content |-> text])]
               ELSE call
  /\ UNCHANGED << pipeline_vars, session_vars, codec_vars, worker_vars >>

\* the agent calls the booking tool during the conversation
ToolCall ==
  /\ call.phase = "live"
  /\ ForwardAgendarCita

\* on_shutdown(reason), to the POST of call_automation: the payload is
\* built and serialized into the request without the coroutine suspending
on_shutdown ==
  /\ call.phase = "live"
  /\ call.callback
  /\ LET payload ==
           [call_id |-> call.call_id,
            call_started_at |-> FormatInstant(call.call_started_at),
            call_ended_at |-> FormatInstant(Clocks(1).ended),
            transcript |-> call.transcript,
            confirmed_visit |-> GetDict(userdata, "confirmed_visit")]
     IN call' = [call EXCEPT !.phase = "shutting", !.posts = @ + 1,
                             !.wire = << payload >>, !.response = "pending"]
  /\ UNCHANGED << pipeline_vars, session_vars, codec_vars, worker_vars >>

\* the request does not reach the endpoint: httpx raises in client.post
TransportFails ==
  /\ call.wire # << >>
  /\ call' = [call EXCEPT !.wire = << >>, !.response = "error"]
  /\ UNCHANGED << pipeline_vars, session_vars, codec_vars, worker_vars >>

\* the request reaches the automation service, whose after-call run is given
\* its fields; the answer reaches the caller, or it does not (a timeout
\* after 60 s, a status that raise_for_status raises on)
RequestServed ==
  /\ call.wire # << >>
  /\ \E response \in {"ok", "error"} :
       call' = [call EXCEPT !.served = Append(@, Head(call.wire)),
                            !.wire = << >>, !.response = response]
  /\ UNCHANGED << pipeline_vars, session_vars, codec_vars, worker_vars >>

\* await call_automation(...) is over: it returned, or it raised and the
\* except of on_shutdown caught it
ForwardReturns ==
  /\ call.phase = "shutting"
  /\ call.response \in {"ok", "error"}
  /\ call' = [call EXCEPT !.phase = IF call.response = "ok" THEN "ended"
                                    ELSE forward_except]
  /\ UNCHANGED << pipeline_vars, session_vars, codec_vars, worker_vars >>

\* ------------------------------------------- the pure functions, applied
\* The entries a transcript can hold: a role, and a content that is absent
\* (or None), empty, text, blank, or text with blanks and line breaks.
Contents ==
  { << >>, << "a" >>, << " " >>, << NL >>, << " ", "a", NL >>, << "a", NL, "b" >> }
Items == [role : Roles, content : Contents] \cup [role : Roles]

RECURSIVE SeqsUpTo(_, _)
SeqsUpTo(S, n) ==
  IF n = 0 THEN { << >> }
  ELSE LET shorter == SeqsUpTo(S, n - 1) IN
       shorter \cup { Append(t, x) : t \in shorter, x \in S }

TranscriptInputs == SeqsUpTo(Items, MaxItems)

\* the instants of a day, in milliseconds, a call can start and end at
Instants == {0, 1, 250, 500, 999, 1000, 1001, 1500, 2000, 2500, 59999, 60000, 3600000}

\* nothing given to the pure functions
CodecInit ==
  /\ flat = [input |-> << >>, done |-> FALSE, output |-> << >>]
  /\ measured = [started |-> 0, ended |-> 0, done |-> FALSE, duration |-> 0]
  /\ extracted = [response |-> << >>, done |-> FALSE, text |-> << >>]

\* a transcript is given
FlattenInit ==
  /\ PipelineInit /\ SessionInit /\ CallInit /\ WorkerInit
  /\ flat \in [input : TranscriptInputs, done : {FALSE}, output : {<< >>}]
  /\ measured = [started |-> 0, ended |-> 0, done |-> FALSE, duration |-> 0]
  /\ extracted = [response |-> << >>, done |-> FALSE, text |-> << >>]

\* the instants a call started and ended at are given
MeasureInit ==
  /\ PipelineInit /\ SessionInit /\ CallInit /\ WorkerInit
  /\ flat = [input |-> << >>, done |-> FALSE, output |-> << >>]
  /\ measured \in [started : Instants, ended : Instants, done : {FALSE}, duration : {0}]
  /\ extracted = [response |-> << >>, done |-> FALSE, text |-> << >>]

\* transcript_to_single_line(transcript), as summarize_transcript and
\* handle_after_call call it
Flatten ==
  /\ ~flat.done
  /\ flat' = [flat EXCEPT !.done = TRUE,
                          !.output = transcript_to_single_line(flat.input)]
  /\ UNCHANGED << pipeline_vars, session_vars, measured, extracted, call, worker_vars >>

\* duration = int((call_ended - call_started_at).total_seconds())
Measure ==
  /\ ~measured.done
  /\ measured' = [measured EXCEPT !.done = TRUE,
                                  !.duration = duration(measured.started, measured.ended)]
  /\ UNCHANGED << pipeline_vars, session_vars, flat, extracted, call, worker_vars >>

\* The content blocks a response item can hold: plain text (bare, padded
\* with blanks and line breaks, or blank), a refusal, and a block that has
\* no type; and the items: with blocks, with no blocks (or content None),
\* and without content at all (a reasoning item, a tool call).
Blocks ==
  [type : {"output_text"}, text : { << "a" >>, << " ", "b", NL >>, << " " >> }]
    \cup [type : {"refusal"}, refusal : { << "n", "o" >> }]
    \cup [text : { << "c" >> }]
OutputItems ==
  [type : {"message"}, content : SeqsUpTo(Blocks, MaxBlocks)]
    \cup [type : {"reasoning"}]
Responses == SeqsUpTo(OutputItems, MaxOutput)

\* a model response is given
ExtractInit ==
  /\ PipelineInit /\ SessionInit /\ CallInit /\ WorkerInit
  /\ flat = [input |-> << >>, done |-> FALSE, output |-> << >>]
  /\ measured = [started |-> 0, ended |-> 0, done |-> FALSE, duration |-> 0]
  /\ extracted \in [response : Responses, done : {FALSE}, text : {<< >>}]

\* extract_text(response), as summarize_transcript and
\* normalize_visit_datetime_pst call it
Extract ==
  /\ ~extracted.done
  /\ extracted' = [extracted EXCEPT !.done = TRUE,
                                    !.text = extract_text(extracted.response)]
  /\ UNCHANGED << pipeline_vars, session_vars, flat, measured, call, worker_vars >>

\* ---------------------------------------------------------- specifications
Init == PipelineInit /\ SessionInit /\ CodecInit /\ CallInit /\ WorkerInit

\* the after-call pipeline: concurrent runs, worker threads, the sinks
Next ==
  \/ \E r \in Runs : RunStep(r)
  \/ \E r \in Runs : ThreadStep(r)
  \/ \E r \in Runs, s \in SheetNames : ServiceRespond(r, s)

Spec == Init /\ [][Next]_vars

\* one call session: the booking tool, invoked any number of times
SessionNext ==
  \/ AgendarCita
  \/ ForwardAgendarCita

SessionSpec == Init /\ [][SessionNext]_vars

\* one call, from entrypoint to the end of its shutdown callback
CallNext ==
  \/ EntrypointFails
  \/ RegisterCallbacks
  \/ on_conversation_item
  \/ ToolCall
  \/ on_shutdown
  \/ TransportFails
  \/ RequestServed
  \/ ForwardReturns

CallSpec == Init /\ [][CallNext]_vars

\* remote appends running concurrently in the threads of the pool
ServiceNext ==
  \E w \in 1..NumWorkers :
    \/ TaskStart(w)
    \/ ServiceTest(w)
    \/ ServiceBuild(w)
    \/ ServiceReturn(w)
    \/ AppendExecute(w)

ServiceSpec == Init /\ [][ServiceNext]_vars

\* transcript_to_single_line on every transcript of up to MaxItems entries
FlattenSpec == FlattenInit /\ [][Flatten]_vars

\* the duration of every pair of instants
DurationSpec == MeasureInit /\ [][Measure]_vars

\* ================================================================ claims
\* ------------------------------------------------------ reading the sinks
IndexOf(headers, field) == CHOOSE i \in 1..Len(headers) : headers[i] = field

\* the data rows of a sink that carry call_id c
RowsOf(lines, headers, c) ==
  { i \in 1..Len(lines) :
      lines[i].kind = "row" /\ lines[i].cells[IndexOf(headers, "call_id")] = c }

HasRow(lines, headers, c) == RowsOf(lines, headers, c) # {}

CsvFailed(r, path) == csv_result[r][path] = "failed"
SheetFailed(r, s) == thread[r][s].st = "err"
Outstanding(r, s) == thread[r][s].st \in {"queued", "inflight"}
HasBooking(r) == Truthy(confirmed_visit_of(r)) /\ WellFormed(confirmed_visit_of(r))
NoBooking(r) == ~Truthy(confirmed_visit_of(r))

\* C1: handle_after_call always returns normally: whatever the summarizer,
\* the two CSV appends and the two sheet appends do (each succeeds or
\* raises, all of them raising in one run included), and also when the
\* orchestration itself raises, no run ends with an exception reaching its
\* caller.
C1_NeverRaises == \A r \in Runs : pc[r] # "raised"

\* a run returned although all five dependencies failed in it
C1_Witness ==
  \E r \in Runs :
    /\ pc[r] = "returned"
    /\ summarizer_calls[r] = 1 /\ summary[r] = None
    /\ CsvFailed(r, CALLS_CSV) /\ CsvFailed(r, SCHEDULE_CSV)
    /\ SheetFailed(r, LLAMADAS) /\ SheetFailed(r, CITAS)

\* C2: sink failures are isolated within a run.  In a run that has ended:
\* the remote append of a record was attempted also when the local append
\* of that record failed, and after any failed append of the call record
\* both appends of the booking record (when there is a booking) were still
\* attempted.
C2_SinkFailuresIsolated ==
  \A r \in Runs :
    pc[r] \in Terminal =>
      /\ csv_attempts[r][CALLS_CSV] >= 1
      /\ CsvFailed(r, CALLS_CSV) => sheet_calls[r][LLAMADAS] >= 1
      /\ (HasBooking(r) /\ (CsvFailed(r, CALLS_CSV) \/ SheetFailed(r, LLAMADAS))) =>
           /\ csv_attempts[r][SCHEDULE_CSV] >= 1
           /\ sheet_calls[r][CITAS] >= 1
      /\ CsvFailed(r, SCHEDULE_CSV) => sheet_calls[r][CITAS] >= 1

\* both appends of the call record and the local append of the booking
\* failed, and the remote append of the booking was made and succeeded
C2_Witness ==
  \E r \in Runs :
    /\ pc[r] = "returned"
    /\ CsvFailed(r, CALLS_CSV) /\ SheetFailed(r, LLAMADAS)
    /\ CsvFailed(r, SCHEDULE_CSV)
    /\ sheet_calls[r][CITAS] = 1 /\ thread[r][CITAS].st = "ok"

\* C3 (as claimed): in each sink a booking row with call_id c is there
\* only if a call row with call_id c is there.
C3_BookingHasParentCall ==
  \A r \in Runs :
    /\ HasRow(files[SCHEDULE_CSV].lines, SCHEDULE_HEADERS, r) =>
         HasRow(files[CALLS_CSV].lines, CALL_HEADERS, r)
    /\ HasRow(sheets[CITAS], SCHEDULE_HEADERS, r) =>
         HasRow(sheets[LLAMADAS], CALL_HEADERS, r)

\* C3 (amended): in each sink the append of the call record has finished,
\* with success or failure, before the booking record of the same run is
\* appended: a booking row with call_id c is there only if the call append
\* for c to that sink has ended, and the call row is there whenever that
\* append succeeded.
C3_CallAppendEndedBeforeBooking ==
  \A r \in Runs :
    /\ HasRow(files[SCHEDULE_CSV].lines, SCHEDULE_HEADERS, r) =>
         /\ csv_result[r][CALLS_CSV] # "none"
         /\ csv_result[r][CALLS_CSV] = "ok" =>
              HasRow(files[CALLS_CSV].lines, CALL_HEADERS, r)
    /\ HasRow(sheets[CITAS], SCHEDULE_HEADERS, r) =>
         /\ FutureDone(r, LLAMADAS)
         /\ thread[r][LLAMADAS].st = "ok" =>
              HasRow(sheets[LLAMADAS], CALL_HEADERS, r)

\* a booking row and its call row are in both sinks
C3_Witness ==
  \E r \in Runs :
    /\ HasRow(files[SCHEDULE_CSV].lines, SCHEDULE_HEADERS, r)
    /\ HasRow(files[CALLS_CSV].lines, CALL_HEADERS, r)
    /\ HasRow(sheets[CITAS], SCHEDULE_HEADERS, r)
    /\ HasRow(sheets[LLAMADAS], CALL_HEADERS, r)

\* C4: concurrent runs appending to one local file do not corrupt it.  As
\* long as no append to the file has failed, the file is absent or empty
\* of lines, or it is one header row followed by exactly one complete row
\* for each run whose append has succeeded (no second header, no row
\* missing or doubled), under every interleaving of the runs.
WrittenBy(path) == { r \in Runs : csv_result[r][path] = "ok" }

WellFormedFile(path) ==
  LET lines == files[path].lines
      rows == WrittenBy(path) IN
  IF rows = {} THEN lines = << >>
  ELSE /\ Len(lines) = 1 + Cardinality(rows)
       /\ lines[1].kind = "header"
       /\ lines[1].cells = HeadersOf(path)
       /\ \A i \in 2..Len(lines) : lines[i].kind = "row"
       /\ \A r \in rows :
            \E i \in 2..Len(lines) : lines[i] = RowLine(HeadersOf(path), RowOf(r, path))
       /\ \A r \in rows : Cardinality(RowsOf(lines, HeadersOf(path), r)) = 1

C4_ConcurrentAppendsWellFormed ==
  \A path \in CsvPaths :
    (\A r \in Runs : ~CsvFailed(r, path)) => WellFormedFile(path)

\* two runs are in flight together (both wait for their Llamadas append)
\* and both have appended to the calls log
C4_Witness ==
  \E r1, r2 \in Runs :
    /\ r1 # r2
    /\ pc[r1] = "sheet_calls_await" /\ pc[r2] = "sheet_calls_await"
    /\ WrittenBy(CALLS_CSV) = {r1, r2}
    /\ Len(files[CALLS_CSV].lines) = 3

AwaitPcOf(s) == IF s = LLAMADAS THEN "sheet_calls_await" ELSE "sheet_visits_await"

NoSinkFailed(r) ==
  /\ \A path \in CsvPaths : ~CsvFailed(r, path)
  /\ \A s \in SheetNames : ~SheetFailed(r, s)

Count(lines, headers, r) == Cardinality(RowsOf(lines, headers, r))

C9_RecordsPerRun ==
  \A r \in Runs :
    (pc[r] \in Terminal /\ NoSinkFailed(r)) =>
      /\ Count(files[CALLS_CSV].lines, CALL_HEADERS, r) = 1
      /\ Count(sheets[LLAMADAS], CALL_HEADERS, r) = 1
      /\ HasBooking(r) =>
           /\ Count(files[SCHEDULE_CSV].lines, SCHEDULE_HEADERS, r) = 1
           /\ Count(sheets[CITAS], SCHEDULE_HEADERS, r) = 1
      /\ NoBooking(r) =>
           /\ Count(files[SCHEDULE_CSV].lines, SCHEDULE_HEADERS, r) = 0
           /\ Count(sheets[CITAS], SCHEDULE_HEADERS, r) = 0

\* a run with a booking ended without a sink failure, one row in each sink
C9_Witness ==
  \E r \in Runs :
    /\ pc[r] = "returned" /\ NoSinkFailed(r) /\ HasBooking(r)
    /\ Count(files[SCHEDULE_CSV].lines, SCHEDULE_HEADERS, r) = 1
    /\ Count(sheets[CITAS], SCHEDULE_HEADERS, r) = 1

AnswerConfidence(a) == IF "confidence" \in DOMAIN a THEN a.confidence ELSE "missing"

C7_NoBookingUnlessHigh ==
  (last.tool = "actions" /\ AnswerConfidence(last.answer) # "high") =>
     /\ userdata = last.before
     /\ last.returned # BOOKED

\* a well-formed date and time came back with confidence "medium" (or with
\* none) while a booking was already stored; the tool asked to confirm
C7_Witness ==
  /\ last.tool = "actions"
  /\ ~NormalizeRaises(last.answer)
  /\ AnswerConfidence(last.answer) \in {"medium", "missing"}
  /\ last.returned = CLARIFY
  /\ Truthy(GetDict(userdata, "confirmed_visit"))

\* C8 (as claimed): confirmed_visit is written at most once in a call: the
\* stored booking is the one the first successful attempt set.
C8_FirstBookingKept ==
  Truthy(first_booked) => GetDict(userdata, "confirmed_visit") = first_booked

\* C8 (amended): every successful attempt writes confirmed_visit, replacing
\* what was stored: after any sequence of invocations the stored booking is
\* the one the latest successful attempt set, and an attempt that does not
\* succeed leaves it as it was.
C8_LatestBookingStored ==
  /\ GetDict(userdata, "confirmed_visit") = last_booked
  /\ (last.tool # "none" /\ last.returned # BOOKED) => userdata = last.before

\* two attempts succeeded with different bookings; the second is stored
C8_Witness ==
  /\ Truthy(first_booked)
  /\ last_booked # first_booked
  /\ GetDict(userdata, "confirmed_visit") = last_booked

\* C6 (as claimed): every run comes to its end also when the remote
\* service never answers: a run that has not ended can always be moved on
\* by the program itself (by the event loop running a coroutine, or by a
\* dispatched thread starting), never having to wait for the service.
ProgramCanAdvance(r) ==
  \/ ENABLED (RunStep(r) \/ ThreadStep(r))
  \/ loop \notin {NoRun, r}      \* another coroutine runs until it suspends

WaitsUnanswered(r) ==
  \E s \in SheetNames : pc[r] = AwaitPcOf(s) /\ thread[r][s].st = "inflight"

PcRank(p) ==
  CASE p = "idle" -> 0
    [] p = "summarize" -> 1
    [] p = "csv_calls_exists" -> 2
    [] p = "csv_calls_write" -> 3
    [] p = "sheet_calls_dispatch" -> 4
    [] p = "sheet_calls_await" -> 5
    [] p = "booking" -> 6
    [] p = "csv_visits_exists" -> 7
    [] p = "csv_visits_write" -> 8
    [] p = "sheet_visits_dispatch" -> 9
    [] p = "sheet_visits_await" -> 10
    [] p = "unwind" -> 11
    [] OTHER -> 12

ThreadRank(st) ==
  CASE st = "none" -> 0
    [] st = "queued" -> 1
    [] st = "inflight" -> 2
    [] OTHER -> 3

Progress ==
  /\ \A r \in Runs : PcRank(pc'[r]) >= PcRank(pc[r])
  /\ \A r \in Runs, s \in SheetNames :
       ThreadRank(thread'[r][s].st) >= ThreadRank(thread[r][s].st)
  /\ \/ \E r \in Runs : PcRank(pc'[r]) > PcRank(pc[r])
     \/ \E r \in Runs, s \in SheetNames :
          ThreadRank(thread'[r][s].st) > ThreadRank(thread[r][s].st)

Cell(line, headers, field) == line.cells[IndexOf(headers, field)]

\* the summary cells of the call rows of run r in a sink
SummariesOf(lines, r) ==
  { Cell(lines[i], CALL_HEADERS, "summary") : i \in RowsOf(lines, CALL_HEADERS, r) }

\* the summarizer was called in run r and raised
SummarizerFailed(r) == summarizer_calls[r] >= 1 /\ summary[r] = None

\* C11: a failed summarization does not abort the run.  In a run whose
\* summarizer raised (on a non-empty transcript): the call record is still
\* appended to both sinks, carrying an absent summary wherever the append
\* succeeded, and the booking branch still runs (with a booking, both
\* booking appends are attempted) by the time the run has ended.
C11_SummaryFailureDoesNotAbort ==
  \A r \in Runs :
    SummarizerFailed(r) =>
      /\ transcript[r] # << >>
      /\ csv_result[r][CALLS_CSV] = "ok" => SummariesOf(files[CALLS_CSV].lines, r) = {None}
      /\ thread[r][LLAMADAS].st = "ok" => SummariesOf(sheets[LLAMADAS], r) = {None}
      /\ pc[r] \in Terminal =>
           /\ csv_attempts[r][CALLS_CSV] = 1
           /\ sheet_calls[r][LLAMADAS] = 1
           /\ HasBooking(r) =>
                /\ csv_attempts[r][SCHEDULE_CSV] = 1
                /\ sheet_calls[r][CITAS] = 1

\* the summarizer raised, and the run returned with its call row (summary
\* absent) and its booking row in both sinks
C11_Witness ==
  \E r \in Runs :
    /\ pc[r] = "returned"
    /\ SummarizerFailed(r)
    /\ SummariesOf(files[CALLS_CSV].lines, r) = {None}
    /\ SummariesOf(sheets[LLAMADAS], r) = {None}
    /\ HasRow(files[SCHEDULE_CSV].lines, SCHEDULE_HEADERS, r)
    /\ HasRow(sheets[CITAS], SCHEDULE_HEADERS, r)

\* C12: the summarizer is called at most once in a run, and once the run is
\* past the summarization step it has been called exactly when the
\* transcript is not empty; on an empty transcript it is never called and
\* the call record is persisted with the summary absent.
C12_SummarizerIffTranscript ==
  \A r \in Runs :
    /\ summarizer_calls[r] <= 1
    /\ pc[r] \notin {"idle", "summarize"} =>
         (summarizer_calls[r] = 1 <=> transcript[r] # << >>)
    /\ transcript[r] = << >> =>
         /\ summarizer_calls[r] = 0
         /\ csv_result[r][CALLS_CSV] = "ok" => SummariesOf(files[CALLS_CSV].lines, r) = {None}
         /\ thread[r][LLAMADAS].st = "ok" => SummariesOf(sheets[LLAMADAS], r) = {None}

\* one run had an empty transcript: no call, its call row with no summary;
\* the other had a transcript: one call, its call row with the summary
C12_Witness ==
  \E r1, r2 \in Runs :
    /\ pc[r1] = "returned" /\ pc[r2] = "returned"
    /\ transcript[r1] = << >> /\ summarizer_calls[r1] = 0
    /\ SummariesOf(files[CALLS_CSV].lines, r1) = {None}
    /\ SummariesOf(sheets[LLAMADAS], r1) = {None}
    /\ transcript[r2] # << >> /\ summarizer_calls[r2] = 1
    /\ SummariesOf(files[CALLS_CSV].lines, r2) = {SummaryText}

\* ------------------------------------------------- correlation of records
DataRows(lines) == { i \in 1..Len(lines) : lines[i].kind = "row" }

\* every booking row of a sink agrees, in created_at_pst, with every call
\* row of the other destination of that sink that has its call_id, and
\* carries the stamp of the run with that call_id
Correlated(visits, calls) ==
  \A i \in DataRows(visits) :
    LET c == Cell(visits[i], SCHEDULE_HEADERS, "call_id")
        stamp == Cell(visits[i], SCHEDULE_HEADERS, "created_at_pst") IN
    /\ c \in Runs
    /\ stamp = FormatInstant(call_ended[c])
    /\ \A j \in RowsOf(calls, CALL_HEADERS, c) :
         Cell(calls[j], CALL_HEADERS, "created_at_pst") = stamp

\* C13: a booking record written by a run carries the created_at value and
\* the call_id of the call record built in that run, in the local logs and
\* in the remote sheets alike.
C13_BookingCorrelatedWithCall ==
  /\ Correlated(files[SCHEDULE_CSV].lines, files[CALLS_CSV].lines)
  /\ Correlated(sheets[CITAS], sheets[LLAMADAS])

\* a run whose call started in another second than it ended has its call
\* row and its booking row in both sinks
C13_Witness ==
  \E r \in Runs :
    /\ FormatInstant(call_started_at[r]) # FormatInstant(call_ended[r])
    /\ HasRow(files[CALLS_CSV].lines, CALL_HEADERS, r)
    /\ HasRow(files[SCHEDULE_CSV].lines, SCHEDULE_HEADERS, r)
    /\ HasRow(sheets[LLAMADAS], CALL_HEADERS, r)
    /\ HasRow(sheets[CITAS], SCHEDULE_HEADERS, r)

\* ---------------------------------------------------------- the local logs
\* C18 (as claimed): after any sequence of appends, failed ones included,
\* every local log that has lines starts with the header row of its fixed
\* field order, and every later line is a data row with its cells in that
\* order.
C18_LogsAreHeaderLed ==
  \A path \in CsvPaths :
    LET lines == files[path].lines IN
    lines # << >> =>
      /\ lines[1] = HeaderLine(HeadersOf(path))
      /\ \A i \in 2..Len(lines) :
           /\ lines[i].kind = "row"
           /\ Len(lines[i].cells) = Len(HeadersOf(path))

\* ------------------------------------------------- date and time resolution
\* The answers of the interpretation step that do not parse: no JSON, a key
\* missing, a date that is not YYYY-MM-DD (or names no day of the
\* calendar), a time that is not HH:MM (or names no minute of the day).
BadDates == {Date_Slashes, Date_Feb30}
BadTimes == {Time_6pm, Time_24h}

Unparseable(a) ==
  \/ a = NotJson
  \/ "date" \notin DOMAIN a
  \/ "time" \notin DOMAIN a
  \/ a.date \in BadDates
  \/ a.time \in BadTimes

\* C14: when the interpretation step answers a date that does not parse as
\* YYYY-MM-DD, a time that does not parse as HH:MM, or no JSON with the
\* keys date and time, normalize_visit_datetime_pst raises: it returns no
\* normalized result of any confidence, and the booking tool stores no
\* booking (the session's userdata is what it was).
C14_UnparseableAnswerRaises ==
  (last.tool = "actions" /\ Unparseable(last.answer)) =>
     /\ last.returned = "raised"
     /\ "normalized" \notin DOMAIN last
     /\ userdata = last.before

\* the answer had confidence "high" and a good time but a date that is no
\* day of the calendar, while a booking was stored: nothing was returned
\* and the stored booking is untouched
C14_Witness ==
  /\ last.tool = "actions"
  /\ last.answer # NotJson
  /\ DOMAIN last.answer = {"date", "time", "confidence"}
  /\ last.answer.date = Date_Feb30
  /\ last.answer.time = Time_18h
  /\ last.answer.confidence = "high"
  /\ last.returned = "raised"
  /\ Truthy(GetDict(userdata, "confirmed_visit"))

\* C15 (as claimed): on such a hard failure of the resolution the booking
\* tool returns the clarification prompt as its result.
C15_HardFailureAsksToClarify ==
  (last.tool = "actions" /\ Unparseable(last.answer)) => last.returned = CLARIFY

\* the fields of a date text and of a time text, read leniently
DateFields(text) ==
  LET f == Split(text, "-") IN
  [year |-> ToNat(f[1]), month |-> ToNat(f[2]), day |-> ToNat(f[3])]
TimeFields(text) ==
  LET f == Split(text, ":") IN [hour |-> ToNat(f[1]), minute |-> ToNat(f[2])]

\* datetime.fromisoformat: YYYY-MM-DDTHH:MM:SS and the offset
IsoDate(iso) == SubSeq(iso, 1, 10)
IsoTime(iso) == SubSeq(iso, 12, 16)

\* C17: for every date and time that pass the validation, visit_date,
\* visit_time and visit_datetime_iso of the result name one instant: the
\* date and the time read back from visit_datetime_iso are the day and the
\* minute that visit_date and visit_time name, and those of the validated
\* answer; for a year of four digits the texts are the same, too.
C17_IsoAgreesWithDateAndTime ==
  (last.tool = "actions" /\ "normalized" \in DOMAIN last) =>
     LET n == last.normalized
         iso == n.visit_datetime_iso
         dt == ParseDateTime(last.answer.date, last.answer.time) IN
     /\ DateFields(IsoDate(iso)) = DateFields(n.visit_date)
     /\ TimeFields(IsoTime(iso)) = TimeFields(n.visit_time)
     /\ DateFields(n.visit_date) = [year |-> dt.year, month |-> dt.month, day |-> dt.day]
     /\ TimeFields(n.visit_time) = [hour |-> dt.hour, minute |-> dt.minute]
     /\ dt.year >= 1000 => IsoDate(iso) = n.visit_date /\ IsoTime(iso) = n.visit_time

\* an answer "2026-3- 5", "9:5" was normalized: the texts differ from the
\* answer's and agree with each other
C17_Witness ==
  /\ last.tool = "actions"
  /\ "normalized" \in DOMAIN last
  /\ last.answer.date = Date_Mar5
  /\ last.answer.time = Time_9h5
  /\ last.normalized.visit_date # last.answer.date
  /\ last.normalized.visit_datetime_iso =
       << "2", "0", "2", "6", "-", "0", "3", "-", "0", "5", "T",
          "0", "9", ":", "0", "5", ":", "0", "0", "-", "0", "8", ":", "0", "0" >>

\* ------------------------------------------------------- the flattened line
UpperRole == [user |-> "USER", assistant |-> "ASSISTANT"]

NonEmptyContent(item) == "content" \in DOMAIN item /\ Len(item.content) > 0
Kept(t) == SelectSeq(t, NonEmptyContent)

\* the segments of a line, read back at the separators
SegmentsOfLine(line) == IF line = << >> THEN << >> ELSE Split(line, " | ")

Blank(text) == \A i \in 1..Len(text) : text[i] \in {" ", NL}

\* text is content without its leading and trailing blanks and line
\* breaks, every line break within turned into a space
Rendered(text, content) ==
  IF Blank(content) THEN text = << >>
  ELSE \E i \in 1..Len(content) : \E j \in i..Len(content) :
         /\ content[i] \notin {" ", NL} /\ content[j] \notin {" ", NL}
         /\ Blank(SubSeq(content, 1, i - 1))
         /\ Blank(SubSeq(content, j + 1, Len(content)))
         /\ Len(text) = j - i + 1
         /\ \A k \in 1..Len(text) :
              text[k] = IF content[i + k - 1] = NL THEN " " ELSE content[i + k - 1]

\* C16: transcript_to_single_line(T) is the segments "ROLE: content" of
\* the entries of T whose content is not empty, one segment for each, in
\* their order in T, with " | " between them; entries whose content is
\* empty or absent leave nothing in the line.
C16_OneSegmentPerContentEntry ==
  LET kept == Kept(flat.input)
      segs == SegmentsOfLine(flat.output) IN
  flat.done =>
  /\ Len(segs) = Len(kept)
  /\ \A i \in 1..Len(segs) :
       /\ Len(segs[i]) >= 2
       /\ segs[i][1] = UpperRole[kept[i].role]
       /\ segs[i][2] = ": "
       /\ Rendered(SubSeq(segs[i], 3, Len(segs[i])), kept[i].content)

\* three entries, the middle one with empty content: two segments, the
\* first entry's before the third's
C16_Witness ==
  /\ flat.done
  /\ Len(flat.input) = 3
  /\ flat.input[1] = [role |-> "assistant", content |-> << "a", NL, "b" >>]
  /\ flat.input[2] = [role |-> "user", content |-> << >>]
  /\ flat.input[3] = [role |-> "user", content |-> << " ", "a", NL >>]
  /\ flat.output = << "ASSISTANT", ": ", "a", " ", "b", " | ", "USER", ": ", "a" >>

\* C20 (as claimed): no segment of the line is empty: each has text after
\* its role prefix.
C20_NoEmptySegment ==
  flat.done => \A i \in 1..Len(SegmentsOfLine(flat.output)) :
    Len(SegmentsOfLine(flat.output)[i]) > 2

\* C20 (amended): an entry whose content is empty or absent leaves no
\* segment, but an entry whose content is only blanks or line breaks is not
\* dropped: it leaves the segment "ROLE: " with no text after the prefix.
\* Those are the only segments without text.
C20_EmptySegmentIffBlankContent ==
  LET kept == Kept(flat.input)
      segs == SegmentsOfLine(flat.output) IN
  flat.done =>
  /\ Len(segs) = Len(kept)
  /\ \A i \in 1..Len(segs) : (Len(segs[i]) = 2 <=> Blank(kept[i].content))

\* an entry with a line break for content left a segment without text
C20_Witness ==
  /\ flat.done
  /\ flat.input = << [role |-> "user", content |-> << NL >>],
                     [role |-> "assistant", content |-> << "a" >>] >>
  /\ flat.output = << "USER", ": ", " | ", "ASSISTANT", ": ", "a" >>

\* ------------------------------------------------------------ the duration
Difference == measured.ended - measured.started

\* C19 (as claimed): duration_seconds is the floor of the difference in
\* seconds, for a negative difference too (-0.5 s gives -1).
C19_DurationIsFloor ==
  measured.done =>
    /\ measured.duration * 1000 <= Difference
    /\ Difference < (measured.duration + 1) * 1000

\* C19 (amended): duration_seconds is the difference in seconds with its
\* fraction dropped, that is rounded towards zero: the floor of a
\* difference that is not negative, and for a negative difference (clock
\* skew) the next whole number above (-0.5 s gives 0, -1.5 s gives -1); the
\* negative value is passed through as it is.
C19_DurationTruncates ==
  measured.done =>
    IF Difference >= 0
    THEN /\ measured.duration * 1000 <= Difference
         /\ Difference < (measured.duration + 1) * 1000
    ELSE /\ (measured.duration - 1) * 1000 < Difference
         /\ Difference <= measured.duration * 1000

\* the end lies half a second before the start: the duration is 0
C19_Witness ==
  /\ measured.done
  /\ measured.started = 1000
  /\ measured.ended = 500
  /\ measured.duration = 0

\* -------------------------------------------------- the text of a response
\* extract_text on every response of up to MaxOutput items
ExtractSpec == ExtractInit /\ [][Extract]_vars

\* the places of a response that hold a plain-text block: item, block
TextPlaces(output) ==
  { p \in (1..Len(output)) \X (1..MaxBlocks) :
      /\ "content" \in DOMAIN output[p[1]]
      /\ p[2] <= Len(output[p[1]].content)
      /\ "type" \in DOMAIN output[p[1]].content[p[2]]
      /\ output[p[1]].content[p[2]].type = "output_text" }

Before(p, q) == p[1] < q[1] \/ (p[1] = q[1] /\ p[2] < q[2])

\* the first plain-text block of a response that has one
FirstText(output) ==
  LET p == CHOOSE q \in TextPlaces(output) :
             \A o \in TextPlaces(output) : o = q \/ Before(q, o)
  IN output[p[1]].content[p[2]].text

\* C21 (as stated): the call returns the text of the first plain-text block
\* of the response, in item and block order, and the empty string when no
\* item holds one.
C21_ReturnsFirstTextAsIs ==
  extracted.done =>
    extracted.text = IF TextPlaces(extracted.response) = {} THEN << >>
                     ELSE FirstText(extracted.response)

\* C21 (amended): the call returns the text of the first plain-text block of
\* the response, in item and block order, with the blanks and line breaks at
\* its two ends removed; and the empty string when no item holds such a
\* block, be it that the items have no content, no blocks, or blocks of
\* other kinds only.
C21_ReturnsFirstTextStripped ==
  extracted.done =>
    extracted.text = IF TextPlaces(extracted.response) = {} THEN << >>
                     ELSE Strip(FirstText(extracted.response))

\* C21 witness: a response whose first item has no content, whose second
\* item holds a refusal and then a padded plain text, has been read.
C21_Witness ==
  /\ extracted.done
  /\ Len(extracted.response) = 2
  /\ "content" \notin DOMAIN extracted.response[1]
  /\ TextPlaces(extracted.response) = { << 2, 2 >> }
  /\ FirstText(extracted.response) = << " ", "b", NL >>
  /\ extracted.text = << "b" >>

\* C21 witness of the empty answer: a response with items but no plain text
\* has been read, and the call returned "".
C21_WitnessNone ==
  /\ extracted.done
  /\ Len(extracted.response) = 2
  /\ extracted.response[1].type = "message" /\ extracted.response[1].content = << >>
  /\ "content" \notin DOMAIN extracted.response[2]
  /\ TextPlaces(extracted.response) = {}
  /\ extracted.text = << >>

\* ------------------------------------------------ the call and its one run
IsPrefix(s, t) == Len(s) <= Len(t) /\ s = SubSeq(t, 1, Len(s))

\* the run was given this call's id, start time and booking, and a
\* transcript the call's list starts with
CarriesCall(run) ==
  /\ run.call_id = call.call_id
  /\ run.call_id = userdata.call_id
  /\ run.call_started_at =
       << "2", "0", "2", "6", "-", "0", "2", "-", "1", "4", " ",
          "1", "8", ":", "0", "0", ":", "0", "0" >>
  /\ run.confirmed_visit = GetDict(userdata, "confirmed_visit")
  /\ IsPrefix(run.transcript, call.transcript)

C22_WitnessLost ==
  /\ call.callback
  /\ call.phase = "ended"
  /\ call.posts = 1
  /\ call.served = << >>

\* ------------------------------------------------------ the run's arguments
\* C23: no step of a run of handle_after_call, from its invocation to its
\* return and whatever fails inside it, changes the transcript or the
\* session userdata (confirmed_visit included) the run was invoked with.
C23_InputsUnchanged ==
  [][\A r \in Runs :
       pc[r] # "idle" =>
         /\ transcript'[r] = transcript[r]
         /\ session_userdata'[r] = session_userdata[r]]_vars

\* C23 witness: a run given a transcript and a booking has returned after
\* its summarizer raised and a local append failed, its arguments as given.
C23_Witness ==
  \E r \in Runs :
    /\ pc[r] = "returned"
    /\ transcript[r] # << >>
    /\ session_userdata[r] = [confirmed_visit |-> Booking]
    /\ SummarizerFailed(r)
    /\ csv_result[r][CALLS_CSV] = "failed"
    /\ csv_result[r][SCHEDULE_CSV] = "ok"

\* C23 witness of the crash: a run given a booking that lacks a field has
\* returned through the outermost except, its arguments as given.
C23_WitnessCrashed ==
  \E r \in Runs :
    /\ pc[r] = "returned"
    /\ session_userdata[r] = [confirmed_visit |-> BrokenBooking]
    /\ transcript[r] # << >>

\* --------------------------------------------------- the one remote client
\* C24: whatever the interleaving of the appends running in the threads of
\* the pool, the client is built at most once, every append request is made
\* on that one client, and the handle is unset for as long as no
\* construction has succeeded.
C24_ClientBuiltOnce ==
  /\ builds <= 1
  /\ Cardinality(used) <= 1
  /\ (builds = 0) = (service = None)

\* C24 divergence reached: two threads have each built a client in their
\* first append, and the two append requests were made on different clients.
C24_BuiltTwice ==
  /\ builds = 2
  /\ Cardinality(used) = 2
  /\ \A w \in 1..NumWorkers : worker[w].tasks = 1 /\ worker[w].st = "idle"

\* C24, the retry: a construction has failed, the handle was left unset, and
\* a later append of the same thread has built the client.
C24_RetriedAfterFailure ==
  \E w \in 1..NumWorkers :
    /\ worker[w].tasks = 2
    /\ worker[w].st = "execute"
    /\ builds = 1
    /\ used = {}
    /\ \A o \in 1..NumWorkers \ {w} : worker[o].tasks = 0
====
